---- MODULE Spec2Model ----
(***************************************************************************)
(* Supervised UMAP graph fusion (cpp/src/umap/supervised.h).               *)
(*                                                                         *)
(* Two entry points combine a neighbour graph with label data:             *)
(*   perform_categorical_intersection  (CategoricalFusion)                 *)
(*   perform_general_intersection      (ContinuousFusion)                  *)
(* Both end in reset_local_connectivity (LocalConnectivityReset).          *)
(*                                                                         *)
(* The model runs one call of either entry point, stage by stage, on       *)
(* every input within the bounds below.                                    *)
(***************************************************************************)
EXTENDS Integers, Sequences, FiniteSets, TLC

\* ------------------------------------------------------------------ bounds
\* n_rows of the graphs of one call.
MaxRows == 2
\* Largest nnz of a graph handed to a call (the neighbour graph, and the
\* label graph the fuzzy-set constructor returns).
MaxNnz == 1

\* --------------------------------------------------- arithmetic of type T
\* T is float in the source.  The model computes exactly: a value is
\*     c0 + c1*E + c2*E^2
\* with rational coefficients <<numerator, denominator>> and E the literal
\* 1e-8 of lines 198-199.  Every coefficient the bounds produce has numerator
\* and denominator far below 1e8, so comparing coefficient by coefficient,
\* lowest power first, is the numeric order.

RECURSIVE GCD(_, _)
GCD(a, b) == IF b = 0 THEN a ELSE GCD(b, a % b)

Abs(a) == IF a < 0 THEN -a ELSE a

Rat(n, d) ==
  LET s == IF d < 0 THEN -1 ELSE 1
      g == GCD(Abs(n), Abs(d))
  IN  <<(s * n) \div g, (s * d) \div g>>

RAdd(a, b) == Rat(a[1] * b[2] + b[1] * a[2], a[2] * b[2])
RSub(a, b) == Rat(a[1] * b[2] - b[1] * a[2], a[2] * b[2])
RMul(a, b) == Rat(a[1] * b[1], a[2] * b[2])
RDiv(a, b) == Rat(a[1] * b[2], a[2] * b[1])
RLt(a, b) == a[1] * b[2] < b[1] * a[2]
R0 == <<0, 1>>
R1 == <<1, 1>>

\* The value q (a rational) of type T.
Val(n, d) == <<Rat(n, d), R0, R0>>
Zero == Val(0, 1)
One == Val(1, 1)
\* The literal 1e-8 (lines 198, 199).
Eps == <<R0, R1, R0>>

VAdd(a, b) == <<RAdd(a[1], b[1]), RAdd(a[2], b[2]), RAdd(a[3], b[3])>>
VSub(a, b) == <<RSub(a[1], b[1]), RSub(a[2], b[2]), RSub(a[3], b[3])>>
\* Products of the model never exceed E^2 (see DegreeOK).
VMul(a, b) ==
  <<RMul(a[1], b[1]),
    RAdd(RMul(a[1], b[2]), RMul(a[2], b[1])),
    RAdd(RAdd(RMul(a[1], b[3]), RMul(a[2], b[2])), RMul(a[3], b[1]))>>
VLt(a, b) ==
  IF a[1] # b[1] THEN RLt(a[1], b[1])
  ELSE IF a[2] # b[2] THEN RLt(a[2], b[2])
  ELSE RLt(a[3], b[3])
VLe(a, b) == a = b \/ VLt(a, b)
VMax(a, b) == IF VLt(a, b) THEN b ELSE a
VHalf(a) == <<RDiv(a[1], <<2, 1>>), RDiv(a[2], <<2, 1>>), RDiv(a[3], <<2, 1>>)>>
\* a / b for a divisor that is a single power of E times a rational (every
\* divisor of the model is a row maximum, hence one stored value).
VDiv(a, b) ==
  IF b[1] # R0 THEN <<RDiv(a[1], b[1]), RDiv(a[2], b[1]), RDiv(a[3], b[1])>>
  ELSE IF b[2] # R0 THEN <<RDiv(a[2], b[2]), RDiv(a[3], b[2]), R0>>
  ELSE <<RDiv(a[3], b[3]), R0, R0>>

VAbs(a) == IF VLt(a, Zero) THEN VSub(Zero, a) ELSE a

\* powf(x, e) for the exponents the modelled mixing weights produce:
\* e = 0 (weights 0 and 1) and e = 1 (weight 1/2).
Pow(x, e) == CASE e = R0 -> One [] e = R1 -> x

\* A distance argument of exp: q * 10^e10.
Dist(q, e10) == [q |-> q, e10 |-> e10]
\* The literal 1.0e12 (line 218).
FarDistMax == Dist(R1, 12)
\* exp(-d) for the distances a call produces: 1.0, 2.5 and 5.0 to three
\* significant digits, and 1.0e12, where float exp underflows to exactly 0.
ExpNeg(d) ==
  CASE d = Dist(R1, 0) -> Val(7, 19)
    [] d = Dist(<<5, 2>>, 0) -> Val(5, 61)
    [] d = Dist(<<5, 1>>, 0) -> Val(1, 148)
    [] d = FarDistMax -> Zero

\* --------------------------------------------------------- sparse graphs
\* A COO graph is the sequence of its entries [row, col, val]; nnz is its
\* length.  Array index k of the source is position k + 1 here.

ceildiv(a, b) == (a + b - 1) \div b

\* Threads of a launch of grid blocks of TPB threads: 0 .. grid*TPB - 1.
Threads(grid, TPB) == 0 .. (grid * TPB - 1)

\* Row index of a row-sorted COO: offset of the first entry of each row.
sorted_coo_to_csr(coo, m) ==
  [r \in 0 .. (m - 1) |-> Cardinality({k \in 1 .. Len(coo) : coo[k].row < r})]

get_stop_idx(row, m, nnz, ind) == IF row < m - 1 THEN ind[row + 1] ELSE nnz

coo_remove_zeros(coo) == SelectSeq(coo, LAMBDA e : e.val # Zero)

\* Array indices of the entries of row `row`.
RowSlice(ind, row, m, nnz) == ind[row] .. (get_stop_idx(row, m, nnz, ind) - 1)

SetMax(S) == CHOOSE x \in S : \A z \in S : z <= x

\* Largest |value| of the entries of row `row` (Zero for an empty row).
RowMax(coo, ind, row, m) ==
  LET S == RowSlice(ind, row, m, Len(coo))
  IN  IF S = {} THEN Zero
      ELSE LET top == CHOOSE k \in S :
                        \A j \in S : VLe(VAbs(coo[j + 1].val), VAbs(coo[k + 1].val))
           IN  VAbs(coo[top + 1].val)

\* Row the row index assigns array index k to.
RowAt(ind, k, m, nnz) == CHOOSE r \in 0 .. (m - 1) : k \in RowSlice(ind, r, m, nnz)

csr_row_normalize_max(coo, ind, m) ==
  [k \in 1 .. Len(coo) |->
     LET mx == RowMax(coo, ind, RowAt(ind, k - 1, m, Len(coo)), m)
     IN  IF VLt(Zero, mx) THEN [coo[k] EXCEPT !.val = VDiv(coo[k].val, mx)]
         ELSE coo[k]]

\* The value of coo at (r, c); Zero where it has no entry.
At(coo, r, c) ==
  LET S == {k \in 1 .. Len(coo) : coo[k].row = r /\ coo[k].col = c}
  IN  IF S = {} THEN Zero ELSE coo[SetMax(S)].val

Has(coo, r, c) == \E k \in 1 .. Len(coo) : coo[k].row = r /\ coo[k].col = c

\* The sequence of f[i], i = lo .. hi, concatenated.
RECURSIVE Concat(_, _, _)
Concat(f, lo, hi) == IF lo > hi THEN <<>> ELSE f[lo] \o Concat(f, lo + 1, hi)

\* The reduction of reset_local_connectivity (lines 83-86).
SymmetrizeBad(row, col, result, transpose) ==
  VSub(VAdd(result, transpose), VMul(result, result))
SymmetrizeSum(row, col, result, transpose) == VAdd(result, transpose)
SymmetrizeOp(row, col, result, transpose) ==
  LET prod_matrix == VMul(result, transpose)
  IN  VSub(VAdd(result, transpose), prod_matrix)

\* coo_symmetrize: every coordinate of G or of its transpose, row by row,
\* with the reduction of G's value and the transposed value.
coo_symmetrize(coo, m) ==
  LET cell == [c \in 0 .. (m * m - 1) |->
                 LET r == c \div m
                     q == c % m
                 IN  IF Has(coo, r, q) \/ Has(coo, q, r)
                     THEN <<[row |-> r, col |-> q,
                             val |-> SymmetrizeOp(r, q, At(coo, r, q), At(coo, q, r))]>>
                     ELSE <<>>]
  IN  Concat(cell, 0, m * m - 1)

\* reset_local_connectivity (lines 66-90): in_coo after the in-place
\* normalisation, and out_coo.
reset_local_connectivity(in_coo, m) ==
  LET row_ind == sorted_coo_to_csr(in_coo, m)
      norm == csr_row_normalize_max(in_coo, row_ind, m)
  IN  [in_coo |-> norm, out_coo |-> coo_symmetrize(norm, m)]

\* ------------------------------------------------- categorical fusion
\* The unknown-label sentinel T(-1.0) (line 59).
Unknown == -1

\* One thread of fast_intersection_kernel (lines 57-62): the new vals[row]
\* for target[i] = ti, target[j] = tj.
FastIntersectionDiffFirst(v, ti, tj, unknown_dist, far_dist) ==
  IF ti # tj THEN VMul(v, ExpNeg(far_dist))
  ELSE IF ti = Unknown \/ tj = Unknown THEN VMul(v, ExpNeg(unknown_dist))
  ELSE v
FastIntersectionVal(v, ti, tj, unknown_dist, far_dist) ==
  IF ti = Unknown \/ tj = Unknown THEN VMul(v, ExpNeg(unknown_dist))
  ELSE IF ti # tj THEN VMul(v, ExpNeg(far_dist))
  ELSE v

\* fast_intersection_kernel (lines 51-64) over the threads of one launch.
fast_intersection_kernel(coo, target, unknown_dist, far_dist, threads) ==
  [k \in 1 .. Len(coo) |->
     IF (k - 1) \in threads /\ (k - 1) < Len(coo)
     THEN [coo[k] EXCEPT !.val =
             FastIntersectionVal(coo[k].val, target[coo[k].row],
                                 target[coo[k].col], unknown_dist, far_dist)]
     ELSE coo[k]]

\* The default unknown_dist = 1.0 (line 103).
UnknownDistDefault == Dist(R1, 0)

\* far_dist of perform_categorical_intersection (lines 218-220).
FarDistNoOverride(target_weights) == Dist(<<5, 1>>, 0)
FarDist(target_weights) ==
  IF RLt(target_weights, R1)
  THEN Dist(RMul(<<5, 2>>, RDiv(R1, RSub(R1, target_weights))), 0)
  ELSE FarDistMax

\* --------------------------------------------------- continuous fusion
\* Entries of row `row` of a CSR-indexed graph, in array order.
RowEntries(coo, ind, row, m) ==
  [i \in 1 .. Cardinality(RowSlice(ind, row, m, Len(coo))) |-> coo[ind[row] + i]]

\* csr_add_calc_inds / csr_add_finalize: the structural union of the two
\* graphs, row by row (the first graph's columns, then the second's new
\* ones), holding the element-wise sum of the values.
csr_add(in1, ind1, in2, ind2, m) ==
  LET rowsum == [r \in 0 .. (m - 1) |->
        LET a == RowEntries(in1, ind1, r, m)
            b == RowEntries(in2, ind2, r, m)
            left == [i \in 1 .. Len(a) |->
                       [a[i] EXCEPT !.val = VAdd(a[i].val, At(b, r, a[i].col))]]
            right == SelectSeq(b, LAMBDA e : ~Has(a, r, e.col))
        IN  left \o right]
  IN  Concat(rowsum, 0, m - 1)

\* The loops of lines 133-145: the value of the last entry of the row with
\* column col, the floor when there is none.
RowLookup(coo, ind, row, m, col, floor) ==
  LET S == {k \in RowSlice(ind, row, m, Len(coo)) : coo[k + 1].col = col}
  IN  IF S = {} THEN floor ELSE coo[SetMax(S) + 1].val

OneHalf == <<1, 2>>

\* Lines 147-155: the value of result_vals[j] after the blend, `old` being
\* the value before it.
SsetValSwapped(left_val, right_val, left_min, right_min, mix_weight, old) ==
  IF VLt(left_min, left_val) \/ VLt(right_min, right_val)
  THEN IF RLt(mix_weight, OneHalf)
       THEN VMul(Pow(left_val, RDiv(mix_weight, RSub(R1, mix_weight))), right_val)
       ELSE VMul(left_val, Pow(right_val, RDiv(RSub(R1, mix_weight), mix_weight)))
  ELSE old
SsetValStrict(left_val, right_val, left_min, right_min, mix_weight, old) ==
  IF VLt(left_min, left_val) \/ VLt(right_min, right_val)
  THEN IF RLt(mix_weight, OneHalf)
       THEN VMul(left_val, Pow(right_val, RDiv(mix_weight, RSub(R1, mix_weight))))
       ELSE IF RLt(OneHalf, mix_weight)
       THEN VMul(Pow(left_val, RDiv(RSub(R1, mix_weight), mix_weight)), right_val)
       ELSE old
  ELSE old
SsetVal(left_val, right_val, left_min, right_min, mix_weight, old) ==
  IF VLt(left_min, left_val) \/ VLt(right_min, right_val)
  THEN IF RLt(mix_weight, OneHalf)
       THEN VMul(left_val, Pow(right_val, RDiv(mix_weight, RSub(R1, mix_weight))))
       ELSE VMul(Pow(left_val, RDiv(RSub(R1, mix_weight), mix_weight)), right_val)
  ELSE old

\* sset_intersection_kernel (lines 111-158) over the threads of one launch.
sset_intersection_kernel(in1, ind1, in2, ind2, result, lmin, rmin, m, mix_weight, threads) ==
  [j \in 1 .. Len(result) |->
     LET row == result[j].row
         col == result[j].col
     IN  IF row \in threads /\ row < m
         THEN [result[j] EXCEPT !.val =
                 SsetVal(RowLookup(in1, ind1, row, m, col, lmin),
                         RowLookup(in2, ind2, row, m, col, rmin),
                         lmin, rmin, mix_weight, result[j].val)]
         ELSE result[j]]

\* Lines 198-199.
FloorOf(min) == VMax(VHalf(min), Eps)

\* thrust::min_element over vals (lines 190-196): the smallest value.
MinVal(coo) ==
  coo[CHOOSE k \in 1 .. Len(coo) : \A j \in 1 .. Len(coo) : VLe(coo[k].val, coo[j].val)].val

\* Grid of the blend launch (line 201).
SsetGrid(in1_nnz, m, TPB) == ceildiv(in1_nnz, TPB)

\* ------------------------------------------------------------ launches
cudaSuccess == "cudaSuccess"
\* A launch of zero blocks is rejected by the runtime and runs no thread.
cudaErrorInvalidConfiguration == "cudaErrorInvalidConfiguration"

LaunchError(grid) == IF grid = 0 THEN cudaErrorInvalidConfiguration ELSE cudaSuccess

\* categorical_simplicial_set_intersection (lines 99-109): the graph after
\* the launch, and the launch's error.
categorical_simplicial_set_intersection(coo, target, far_dist, unknown_dist, TPB) ==
  LET grid == ceildiv(Len(coo), TPB)
  IN  [coo |-> IF grid = 0 THEN coo
               ELSE fast_intersection_kernel(coo, target, unknown_dist, far_dist,
                                             Threads(grid, TPB)),
       err |-> LaunchError(grid)]

\* Lines 201-207 of general_simplicial_set_intersection: result after the
\* blend launch, and the launch's error.
SsetLaunch(in1, ind1, in2, ind2, result, lmin, rmin, m, weight, TPB) ==
  LET grid == SsetGrid(Len(in1), m, TPB)
  IN  [coo |-> IF grid = 0 THEN result
               ELSE sset_intersection_kernel(in1, ind1, in2, ind2, result, lmin,
                                             rmin, m, weight, Threads(grid, TPB)),
       err |-> LaunchError(grid)]

\* ----------------------------------------------------------------- state
VARIABLES
  pc,              \* stage of the call
  entry,           \* "categorical" | "general": the entry point called
  TPB_X,           \* template parameter: threads per block
  target_weights,  \* params->target_weights
  y,               \* categorical labels, one per row
  in_graph,        \* the caller's graph as it was when the call began
  rgraph_coo,      \* the caller's graph (rgraph_coo)
  ygraph_coo,      \* label graph returned by FuzzySimplSet::run
  cygraph_coo,     \* ygraph_coo without zeros
  xrow_ind,        \* row index of rgraph_coo
  yrow_ind,        \* row index of cygraph_coo
  result_coo,      \* result of general_simplicial_set_intersection
  left_min,        \* lines 198-199
  right_min,
  comp_coo,        \* comp_coo (categorical) / out (general)
  final_coo,       \* final_coo, the fused graph
  cuda_err,        \* the runtime's last error
  oob_read         \* an element outside a buffer was read

vars == <<pc, entry, TPB_X, target_weights, y, in_graph, rgraph_coo, ygraph_coo,
          cygraph_coo, xrow_ind, yrow_ind, result_coo, left_min, right_min,
          comp_coo, final_coo, cuda_err, oob_read>>

n_rows == MaxRows
Rows == 0 .. (n_rows - 1)

\* Input domains.  Values of the graphs handed to a call: an explicit zero
\* and a nonzero membership strength.  TPB_X is 256 in the library's
\* instantiations; the model takes granularities of the size of its graphs.
Vals == {Zero, One}
Labels == {Unknown, 0, 1}
TargetWeights == {R0, OneHalf, R1}
TPBs == {1, 2}

Cells == [row : Rows, col : Rows, val : Vals]
Code(e) == e.row * n_rows + e.col
\* Row-sorted coordinate lists without duplicate coordinates.
Graphs ==
  UNION {{g \in [1 .. k -> Cells] : \A i \in 1 .. (k - 1) : Code(g[i]) < Code(g[i + 1])} :
         k \in 0 .. MaxNnz}

NoInd == [r \in Rows |-> 0]

Init ==
  /\ pc = "start"
  /\ entry \in {"categorical", "general"}
  /\ TPB_X \in TPBs
  /\ target_weights \in TargetWeights
  /\ rgraph_coo \in Graphs
  /\ in_graph = rgraph_coo
  /\ IF entry = "categorical"
     THEN y \in [Rows -> Labels] /\ ygraph_coo = <<>>
     ELSE y = [r \in Rows |-> 0] /\ ygraph_coo \in Graphs
  /\ cygraph_coo = <<>>
  /\ xrow_ind = NoInd
  /\ yrow_ind = NoInd
  /\ result_coo = <<>>
  /\ left_min = Zero
  /\ right_min = Zero
  /\ comp_coo = <<>>
  /\ final_coo = <<>>
  /\ cuda_err = cudaSuccess
  /\ oob_read = FALSE

\* perform_categorical_intersection, lines 218-223.
CatIntersect ==
  /\ pc = "start" /\ entry = "categorical"
  /\ LET r == categorical_simplicial_set_intersection(
                rgraph_coo, y, FarDist(target_weights), UnknownDistDefault, TPB_X)
     IN  /\ rgraph_coo' = r.coo
         /\ cuda_err' = r.err
  /\ pc' = "cat_remove_zeros"
  /\ UNCHANGED <<entry, TPB_X, target_weights, y, in_graph, ygraph_coo, cygraph_coo,
                 xrow_ind, yrow_ind, result_coo, left_min, right_min, comp_coo,
                 final_coo, oob_read>>

\* perform_categorical_intersection, lines 225-226.
CatRemoveZeros ==
  /\ pc = "cat_remove_zeros"
  /\ comp_coo' = coo_remove_zeros(rgraph_coo)
  /\ pc' = "reset"
  /\ UNCHANGED <<entry, TPB_X, target_weights, y, in_graph, rgraph_coo, ygraph_coo,
                 cygraph_coo, xrow_ind, yrow_ind, result_coo, left_min, right_min,
                 final_coo, cuda_err, oob_read>>

GenPrepareInPlace ==
  /\ pc = "start" /\ entry = "general"
  /\ rgraph_coo' = coo_remove_zeros(rgraph_coo)
  /\ cygraph_coo' = coo_remove_zeros(ygraph_coo)
  /\ yrow_ind' = sorted_coo_to_csr(cygraph_coo', n_rows)
  /\ xrow_ind' = sorted_coo_to_csr(rgraph_coo', n_rows)
  /\ pc' = "gen_intersect"
  /\ UNCHANGED <<entry, TPB_X, target_weights, y, in_graph, ygraph_coo,
                 result_coo, left_min, right_min, comp_coo, final_coo, cuda_err,
                 oob_read>>
\* perform_general_intersection, lines 284-298.
GenPrepare ==
  /\ pc = "start" /\ entry = "general"
  /\ cygraph_coo' = coo_remove_zeros(ygraph_coo)
  /\ yrow_ind' = sorted_coo_to_csr(cygraph_coo', n_rows)
  /\ xrow_ind' = sorted_coo_to_csr(rgraph_coo, n_rows)
  /\ pc' = "gen_intersect"
  /\ UNCHANGED <<entry, TPB_X, target_weights, y, in_graph, rgraph_coo, ygraph_coo,
                 result_coo, left_min, right_min, comp_coo, final_coo, cuda_err,
                 oob_read>>

\* What *min_element(first, first + nnz) can yield (lines 190-196).  On an
\* empty range min_element returns first, and the dereference reads past a
\* buffer of no elements: the read faults, or yields whatever is there.
MinOutcomes(coo) ==
  IF Len(coo) > 0 THEN {[fault |-> FALSE, val |-> MinVal(coo)]}
  ELSE [fault : {FALSE}, val : Vals] \cup {[fault |-> TRUE, val |-> Zero]}

\* general_simplicial_set_intersection, lines 165-211 (called at 300-303).
GenIntersect ==
  /\ pc = "gen_intersect"
  /\ LET sum == csr_add(rgraph_coo, xrow_ind, cygraph_coo, yrow_ind, n_rows)
     IN  \E min1 \in MinOutcomes(rgraph_coo), min2 \in MinOutcomes(cygraph_coo) :
           /\ oob_read' = (Len(rgraph_coo) = 0 \/ Len(cygraph_coo) = 0)
           /\ IF min1.fault \/ min2.fault
              THEN /\ result_coo' = sum
                   /\ pc' = "failed"
                   /\ UNCHANGED <<left_min, right_min, cuda_err>>
              ELSE LET r == SsetLaunch(rgraph_coo, xrow_ind, cygraph_coo, yrow_ind,
                                       sum, FloorOf(min1.val), FloorOf(min2.val), n_rows,
                                       target_weights, TPB_X)
                   IN  /\ left_min' = FloorOf(min1.val)
                       /\ right_min' = FloorOf(min2.val)
                       /\ result_coo' = r.coo
                       /\ cuda_err' = r.err
                       \* CUDA_CHECK(cudaGetLastError()), line 208
                       /\ pc' = IF r.err = cudaSuccess THEN "gen_remove_zeros"
                                ELSE "failed"
  /\ UNCHANGED <<entry, TPB_X, target_weights, y, in_graph, rgraph_coo, ygraph_coo,
                 cygraph_coo, xrow_ind, yrow_ind, comp_coo, final_coo>>

\* perform_general_intersection, lines 308-309.
GenRemoveZeros ==
  /\ pc = "gen_remove_zeros"
  /\ comp_coo' = coo_remove_zeros(result_coo)
  /\ pc' = "reset"
  /\ UNCHANGED <<entry, TPB_X, target_weights, y, in_graph, rgraph_coo, ygraph_coo,
                 cygraph_coo, xrow_ind, yrow_ind, result_coo, left_min, right_min,
                 final_coo, cuda_err, oob_read>>

\* reset_local_connectivity and the CUDA_CHECK after it (lines 228-230 and
\* 311-313): the pending launch error, if any, is raised at line 79.
Reset ==
  /\ pc = "reset"
  /\ LET r == reset_local_connectivity(comp_coo, n_rows)
     IN  /\ comp_coo' = r.in_coo
         /\ IF cuda_err = cudaSuccess
            THEN final_coo' = r.out_coo /\ pc' = "done"
            ELSE final_coo' = final_coo /\ pc' = "failed"
  /\ UNCHANGED <<entry, TPB_X, target_weights, y, in_graph, rgraph_coo, ygraph_coo,
                 cygraph_coo, xrow_ind, yrow_ind, result_coo, left_min, right_min,
                 cuda_err, oob_read>>

Next == CatIntersect \/ CatRemoveZeros \/ GenPrepare \/ GenIntersect
        \/ GenRemoveZeros \/ Reset

Spec == Init /\ [][Next]_vars

\* ------------------------------------------- a call as one function
\* perform_categorical_intersection (lines 213-231) from its inputs: whether
\* it returns, and final_coo.
CatFused(graph, target, weights, TPB) ==
  LET w == categorical_simplicial_set_intersection(
             graph, target, FarDist(weights), UnknownDistDefault, TPB)
      r == reset_local_connectivity(coo_remove_zeros(w.coo), n_rows)
  IN  [ok |-> w.err = cudaSuccess,
       coo |-> IF w.err = cudaSuccess THEN r.out_coo ELSE <<>>]

\* perform_general_intersection from line 295 on, for the pruned label
\* graph and the two floors: whether it returns, and final_coo.
GenFused(graph, cygraph, lmin, rmin, weights, TPB) ==
  LET ind1 == sorted_coo_to_csr(graph, n_rows)
      ind2 == sorted_coo_to_csr(cygraph, n_rows)
      b == SsetLaunch(graph, ind1, cygraph, ind2,
                      csr_add(graph, ind1, cygraph, ind2, n_rows),
                      lmin, rmin, n_rows, weights, TPB)
      r == reset_local_connectivity(coo_remove_zeros(b.coo), n_rows)
  IN  [ok |-> b.err = cudaSuccess,
       coo |-> IF b.err = cudaSuccess THEN r.out_coo ELSE <<>>]

\* Every stored value other than the fused graph's has no E^2 term, so no
\* product of two of them is truncated.
DegreeOK ==
  \A g \in {rgraph_coo, cygraph_coo, result_coo, comp_coo} :
    \A k \in 1 .. Len(g) : g[k].val[3] = R0

\* =============================================================== claims
\* The structural union before the blend (lines 172-188).
PreBlend == csr_add(rgraph_coo, xrow_ind, cygraph_coo, yrow_ind, n_rows)
\* Rows some thread of the blend launch handles.
Covered(row) == row < ceildiv(Len(rgraph_coo), TPB_X) * TPB_X
\* left_val / right_val of an output coordinate (step 6 of the blend).
LeftVal(r, c) == IF Has(rgraph_coo, r, c) THEN At(rgraph_coo, r, c) ELSE left_min
RightVal(r, c) == IF Has(cygraph_coo, r, c) THEN At(cygraph_coo, r, c) ELSE right_min
Present(r, c) == VLt(left_min, LeftVal(r, c)) \/ VLt(right_min, RightVal(r, c))
\* The blend kernel writes result_vals[j].
Written(j) ==
  /\ Covered(result_coo[j].row)
  /\ Present(result_coo[j].row, result_coo[j].col)
Blended == pc = "gen_remove_zeros"

\* C1 (as stated): at target_weights = 0.5 no blend formula is applied; every
\* output value stays at its pre-blend default.
C1_NoBlendAtHalf ==
  (Blended /\ target_weights = OneHalf) => result_coo = PreBlend

\* C1 (amended): at target_weights = 0.5 the else branch fires: every value
\* the kernel writes is left_val^1 * right_val; the others keep the default.
C1_ElseBranchAtHalf ==
  (Blended /\ target_weights = OneHalf) =>
    /\ Len(result_coo) = Len(PreBlend)
    /\ \A j \in 1 .. Len(result_coo) :
         result_coo[j].val =
           IF Written(j)
           THEN VMul(LeftVal(result_coo[j].row, result_coo[j].col),
                     RightVal(result_coo[j].row, result_coo[j].col))
           ELSE PreBlend[j].val

\* A blend at target_weights = 0.5 that changed a value.
C1_Witness ==
  /\ Blended /\ target_weights = OneHalf
  /\ \E j \in 1 .. Len(result_coo) : Written(j) /\ result_coo[j].val # PreBlend[j].val

\* C2: the label-weighting step multiplies an edge with an unknown endpoint
\* by exp(-1.0) (even when the labels differ), an edge of differing known
\* labels by exp(-far_dist), leaves the others alone, and changes no index;
\* far_dist is 2.5 / (1 - target_weights) below 1 and 1.0e12 from 1 on.
C2_LabelWeighting ==
  (entry = "categorical" /\ pc # "start") =>
    /\ Len(rgraph_coo) = Len(in_graph)
    /\ \A k \in 1 .. Len(in_graph) :
         LET e == in_graph[k]
             far == IF RLt(target_weights, R1)
                    THEN Dist(RDiv(<<5, 2>>, RSub(R1, target_weights)), 0)
                    ELSE Dist(R1, 12)
         IN  /\ rgraph_coo[k].row = e.row
             /\ rgraph_coo[k].col = e.col
             /\ rgraph_coo[k].val =
                  IF y[e.row] = -1 \/ y[e.col] = -1
                  THEN VMul(e.val, ExpNeg(Dist(R1, 0)))
                  ELSE IF y[e.row] # y[e.col] THEN VMul(e.val, ExpNeg(far))
                  ELSE e.val

\* An edge from an unknown label to a different, known label, weighted.
C2_Witness ==
  /\ entry = "categorical" /\ pc = "cat_remove_zeros"
  /\ \E k \in 1 .. Len(in_graph) :
       /\ in_graph[k].val = One
       /\ y[in_graph[k].row] = -1
       /\ y[in_graph[k].col] # -1
       /\ rgraph_coo[k].val = Val(7, 19)

\* C3 (as stated): the fused graph a call returns is the one it returns
\* under every other granularity TPB_X.
C3_GranularityFree ==
  pc = "done" =>
    \A t \in TPBs :
      LET f == IF entry = "categorical"
               THEN CatFused(in_graph, y, target_weights, t)
               ELSE GenFused(in_graph, cygraph_coo, left_min, right_min,
                             target_weights, t)
      IN  f.ok /\ f.coo = final_coo

\* C4 (as stated): with target_weights = 0 every label vector (every label
\* graph) yields the fused graph this call returns.
C4_LabelsIgnoredAtZero ==
  (pc = "done" /\ target_weights = R0) =>
    IF entry = "categorical"
    THEN \A y2 \in [Rows -> Labels] :
           CatFused(in_graph, y2, target_weights, TPB_X).coo = final_coo
    ELSE \A g2 \in Graphs :
           LET c2 == coo_remove_zeros(g2)
           IN  (Len(c2) > 0 /\ Len(cygraph_coo) > 0) =>
                 GenFused(in_graph, c2, left_min, FloorOf(MinVal(c2)),
                          target_weights, TPB_X).coo = final_coo

\* C4 (amended): with target_weights = 0 the labels still act.  Categorical:
\* far_dist is 2.5, so an edge of differing known labels is multiplied by
\* exp(-2.5) and one with an unknown endpoint by exp(-1.0).  Continuous: a
\* value the blend writes is left_val * right_val^0 = left_val, which is the
\* floor left_min at a coordinate only the label graph has.
C4_LabelsActAtZero ==
  target_weights = R0 =>
    /\ (entry = "categorical" /\ pc # "start") =>
         \A k \in 1 .. Len(in_graph) :
           rgraph_coo[k].val =
             VMul(in_graph[k].val,
                  IF y[in_graph[k].row] = -1 \/ y[in_graph[k].col] = -1
                  THEN ExpNeg(Dist(R1, 0))
                  ELSE IF y[in_graph[k].row] # y[in_graph[k].col]
                  THEN ExpNeg(Dist(<<5, 2>>, 0))
                  ELSE One)
    /\ Blended =>
         \A j \in 1 .. Len(result_coo) :
           Written(j) =>
             result_coo[j].val =
               IF Has(rgraph_coo, result_coo[j].row, result_coo[j].col)
               THEN At(rgraph_coo, result_coo[j].row, result_coo[j].col)
               ELSE left_min

\* An edge of differing known labels weighted at target_weights = 0.
C4_Witness ==
  /\ target_weights = R0 /\ entry = "categorical" /\ pc = "cat_remove_zeros"
  /\ \E k \in 1 .. Len(in_graph) :
       /\ y[in_graph[k].row] = 0 /\ y[in_graph[k].col] = 1
       /\ in_graph[k].val = One
       /\ rgraph_coo[k].val = Val(5, 61)

\* C5 (as stated): the blended value at every output coordinate is G1's
\* value there at target_weights = 0 and G2's value there at 1.
C5_EqualsInputAtEnds ==
  Blended =>
    \A j \in 1 .. Len(result_coo) :
      /\ target_weights = R0 =>
           result_coo[j].val = At(rgraph_coo, result_coo[j].row, result_coo[j].col)
      /\ target_weights = R1 =>
           result_coo[j].val = At(cygraph_coo, result_coo[j].row, result_coo[j].col)

\* C5 (amended): every value the blend kernel writes is left_val at
\* target_weights = 0 and right_val at 1 (the graph's value where it has the
\* coordinate, its floor where it has not); a value it does not write keeps
\* the element-wise sum.
C5_EqualsSideValueAtEnds ==
  (Blended /\ target_weights \in {R0, R1}) =>
    \A j \in 1 .. Len(result_coo) :
      result_coo[j].val =
        IF ~Written(j) THEN PreBlend[j].val
        ELSE IF target_weights = R0
        THEN LeftVal(result_coo[j].row, result_coo[j].col)
        ELSE RightVal(result_coo[j].row, result_coo[j].col)

\* At target_weights = 1, a written coordinate the label graph lacks.
C5_Witness ==
  /\ Blended /\ target_weights = R1
  /\ \E j \in 1 .. Len(result_coo) :
       /\ Written(j)
       /\ ~Has(cygraph_coo, result_coo[j].row, result_coo[j].col)
       /\ result_coo[j].val = right_min

\* C6: the fused graph is symmetric: with every edge (i, j, v) it holds
\* the edge (j, i, v).
C6_Symmetric ==
  pc = "done" =>
    \A k \in 1 .. Len(final_coo) :
      \E k2 \in 1 .. Len(final_coo) :
        /\ final_coo[k2].row = final_coo[k].col
        /\ final_coo[k2].col = final_coo[k].row
        /\ final_coo[k2].val = final_coo[k].val

\* A fused edge whose two directions differed before symmetrization.
C6_Witness ==
  /\ pc = "done"
  /\ \E r \in Rows, c \in Rows :
       /\ r # c
       /\ Has(comp_coo, r, c)
       /\ At(comp_coo, r, c) # At(comp_coo, c, r)
       /\ Has(final_coo, c, r)

\* Row r of the fused graph holds a value other than 0.
RowNonZero(r) == \E k \in 1 .. Len(final_coo) : final_coo[k].row = r /\ final_coo[k].val # Zero
RowHasOne(r) == \E k \in 1 .. Len(final_coo) : final_coo[k].row = r /\ final_coo[k].val = One
InUnit == \A k \in 1 .. Len(final_coo) : VLe(Zero, final_coo[k].val) /\ VLe(final_coo[k].val, One)

\* C7 (as stated): every row of the fused graph with a nonzero entry has
\* maximum exactly 1, and all values lie in [0, 1].
C7_RowNormalized ==
  pc = "done" => InUnit /\ \A r \in Rows : RowNonZero(r) => RowHasOne(r)

\* C7 (amended): all values of the fused graph lie in [0, 1], and every row
\* that has an entry before symmetrization has maximum exactly 1 in the
\* fused graph; a row that gets its entries from the transpose alone need
\* not.
C7_NormalizedRowsKeepOne ==
  pc = "done" =>
    /\ InUnit
    /\ \A r \in Rows :
         (\E k \in 1 .. Len(comp_coo) : comp_coo[k].row = r) => RowHasOne(r)

\* A fused graph with a row of maximum 1 and a nonzero row without a 1.
C7_Witness ==
  /\ pc = "done"
  /\ \E r \in Rows : RowNonZero(r) /\ ~RowHasOne(r)
  /\ \E r \in Rows : (\E k \in 1 .. Len(comp_coo) : comp_coo[k].row = r) /\ RowHasOne(r)

\* C8 (as stated): a call on a graph of nnz = 0 reads nothing out of range,
\* does not fail, and returns the empty graph.
C8_EmptyGraphHandled ==
  Len(in_graph) = 0 =>
    /\ ~oob_read
    /\ pc # "failed"
    /\ pc = "done" => final_coo = <<>>

\* C9 (as stated): when the call ends the caller's graph is as it was.
C9_InputUnchanged ==
  pc \in {"done", "failed"} => rgraph_coo = in_graph

\* C9 (amended): a call never changes the caller's nnz, row indices or column
\* indices; the continuous fusion leaves the values alone too, the
\* categorical fusion overwrites them in place, each with itself or an
\* attenuated value.
C9_OnlyValuesInPlace ==
  /\ Len(rgraph_coo) = Len(in_graph)
  /\ \A k \in 1 .. Len(in_graph) :
       /\ rgraph_coo[k].row = in_graph[k].row
       /\ rgraph_coo[k].col = in_graph[k].col
       /\ VLe(Zero, rgraph_coo[k].val)
       /\ VLe(rgraph_coo[k].val, in_graph[k].val)
  /\ entry = "general" => rgraph_coo = in_graph

\* A finished categorical call that changed the caller's values.
C9_Witness ==
  /\ entry = "categorical" /\ pc = "done"
  /\ rgraph_coo # in_graph

\* The blend formula of lines 148-154.
BlendOf(lv, rv) ==
  IF RLt(target_weights, OneHalf)
  THEN VMul(lv, Pow(rv, RDiv(target_weights, RSub(R1, target_weights))))
  ELSE VMul(Pow(lv, RDiv(RSub(R1, target_weights), target_weights)), rv)

\* C10 (as stated): every coordinate where G1 or G2 has a positive value
\* passes the presence test and holds the blended value after the blend.
C10_PositiveEntriesBlended ==
  Blended =>
    \A j \in 1 .. Len(result_coo) :
      LET r == result_coo[j].row
          c == result_coo[j].col
      IN  (VLt(Zero, At(rgraph_coo, r, c)) \/ VLt(Zero, At(cygraph_coo, r, c))) =>
            /\ Present(r, c)
            /\ result_coo[j].val = BlendOf(LeftVal(r, c), RightVal(r, c))

====
